---- MODULE Spec2Model ----
(***************************************************************************)
(* NBAFantasyOptimizer (src/nba_fantasy_optimizer.py): one run of main().  *)
(* The run builds a 0/1 program over the decision variables initial_squad, *)
(* squad_day, chosen_day (the lineup), doubled_score (the captain), t_in   *)
(* and t_out, hands it to the solver, and prints what the solver returned. *)
(* The constraints the code adds to self.prob are kept as records in the   *)
(* variable prob, one record per `self.prob += ...` statement executed;    *)
(* Holds gives each record the meaning of its linear (in)equality.  The    *)
(* solver is the external engine: Solve returns any optimal assignment of  *)
(* the recorded program, or reports it infeasible.                         *)
(***************************************************************************)
EXTENDS Integers, FiniteSets, Sequences, TLC

VARIABLES
    config,      \* config.json as loaded by main()
    players_df,  \* the player table (points_per_game may be overridden)
    pc,          \* position of the run
    days,        \* self.days
    fixed,       \* indices whose initial_squad variable has lowBound = upBound = 1
    prob,        \* the constraints added to self.prob so far
    objective,   \* the objective's coefficient of chosen_day[i,d] + doubled_score[i,d]
    status,      \* self.prob.status
    sol,         \* varValue of every decision variable
    output       \* the lines printed so far

vars == <<config, players_df, pc, days, fixed, prob, objective, status, sol, output>>

-----------------------------------------------------------------------------
(* Class constants.                                                        *)
INITIAL_PLAYERS_COUNT == 10
MIN_PLAYER_TYPE_COUNT == 2
PLAYER_TYPE_COUNT == 5
TOTAL_PLAYERS_PER_DAY == 5
MAX_PLAYERS_FROM_SAME_TEAM == 2

(* Bounds of the inputs explored.                                          *)
LastGameday == 2     \* the windows explored are start..end within 1..LastGameday
MaxTransfers == 1    \* config["transfers"] ranges over 0..MaxTransfers
MaxExtra == 1        \* transfer indicators the solver sets without need, at most

-----------------------------------------------------------------------------
(* The data set read by main(): players.csv and games.csv.  Three player   *)
(* tables are explored; they differ in the last row.  In tables "A" and    *)
(* "C" every player has position type 1 or 2; in "A" three players of type *)
(* 1 share team BOS, in "C" the last player has a team of their own, which *)
(* does not play every day.  In table "B" the last player has position     *)
(* type 3.                                                                 *)
CommonRows ==
    << [name |-> "P0", now_cost |-> 10, element_type |-> 1, team |-> "BOS", points_per_game |-> 50],
       [name |-> "P1", now_cost |-> 9,  element_type |-> 1, team |-> "BOS", points_per_game |-> 45],
       [name |-> "P2", now_cost |-> 8,  element_type |-> 1, team |-> "LAL", points_per_game |-> 40],
       [name |-> "P3", now_cost |-> 7,  element_type |-> 1, team |-> "MIA", points_per_game |-> 30],
       [name |-> "P4", now_cost |-> 6,  element_type |-> 1, team |-> "DEN", points_per_game |-> 20],
       [name |-> "P5", now_cost |-> 9,  element_type |-> 2, team |-> "LAL", points_per_game |-> 48],
       [name |-> "P6", now_cost |-> 8,  element_type |-> 2, team |-> "MIA", points_per_game |-> 35],
       [name |-> "P7", now_cost |-> 7,  element_type |-> 2, team |-> "DEN", points_per_game |-> 33],
       [name |-> "P8", now_cost |-> 6,  element_type |-> 2, team |-> "NYK", points_per_game |-> 25],
       [name |-> "P9", now_cost |-> 5,  element_type |-> 2, team |-> "NYK", points_per_game |-> 22] >>

LastRowA == [name |-> "P10", now_cost |-> 8, element_type |-> 1, team |-> "BOS", points_per_game |-> 55]
LastRowB == [name |-> "P10", now_cost |-> 8, element_type |-> 3, team |-> "GSW", points_per_game |-> 55]
LastRowC == [name |-> "P10", now_cost |-> 8, element_type |-> 1, team |-> "GSW", points_per_game |-> 55]

Index == 0 .. Len(CommonRows)

(* The table as pandas holds it: one column per field, keyed by the row    *)
(* index 0, 1, ...                                                         *)
PlayerTable(last) ==
    LET row(i) == IF i < Len(CommonRows) THEN CommonRows[i + 1] ELSE last
    IN  [name            |-> [i \in Index |-> row(i).name],
         now_cost        |-> [i \in Index |-> row(i).now_cost],
         element_type    |-> [i \in Index |-> row(i).element_type],
         team            |-> [i \in Index |-> row(i).team],
         points_per_game |-> [i \in Index |-> row(i).points_per_game]]

PlayerTables == {PlayerTable(LastRowA), PlayerTable(LastRowB), PlayerTable(LastRowC)}

games_df ==
    << [event |-> 1, team_h |-> "BOS", team_a |-> "LAL"],
       [event |-> 1, team_h |-> "MIA", team_a |-> "DEN"],
       [event |-> 2, team_h |-> "NYK", team_a |-> "GSW"],
       [event |-> 2, team_h |-> "BOS", team_a |-> "MIA"],
       [event |-> 3, team_h |-> "LAL", team_a |-> "DEN"],
       [event |-> 3, team_h |-> "NYK", team_a |-> "BOS"],
       [event |-> 4, team_h |-> "GSW", team_a |-> "LAL"],
       [event |-> 4, team_h |-> "DEN", team_a |-> "NYK"] >>

(* The configurations explored.  The budgets are: too small for any squad, *)
(* just enough for the ten players of types 1 and 2 of table "B", and      *)
(* generous.  The must-include list and the points override come in three  *)
(* combinations: neither; a must-include name of the table with an         *)
(* override of one name of the table and of one name that is in no row; a  *)
(* must-include name that is in no row.                                    *)
Budgets == {50, 75, 100}

Overrides ==
    { [initial_squad |-> << >>,             present |-> FALSE, adjustments |-> << >>],
      [initial_squad |-> <<"P3">>,          present |-> TRUE,
       adjustments |-> << <<"P4", 60>>, <<"Ghost", 60>> >>],
      [initial_squad |-> <<"P2", "Ghost">>, present |-> FALSE, adjustments |-> << >>] }

Windows == {w \in (1 .. LastGameday) \X (1 .. LastGameday) : w[1] <= w[2]}

Configs ==
    { [budget |-> b, start_gameday |-> w[1], end_gameday |-> w[2], transfers |-> t,
       initial_squad |-> o.initial_squad, has_adjustments |-> o.present,
       player_points_adjustments |-> o.adjustments] :
         b \in Budgets, w \in Windows, t \in 0 .. MaxTransfers, o \in Overrides }

-----------------------------------------------------------------------------
(* Values of the decision variables.  A variable that the solver has not   *)
(* set reads None.                                                         *)
None == 0 - 1

Vectors == [Index -> {0, 1}]

Unset(ds) ==
    [initial_squad |-> [i \in Index |-> None],
     squad_day     |-> [k \in Index \X ds |-> None],
     chosen_day    |-> [k \in Index \X ds |-> None],
     t_in          |-> [k \in Index \X ds |-> None],
     t_out         |-> [k \in Index \X ds |-> None],
     doubled_score |-> [k \in Index \X ds |-> None]]

Init ==
    /\ config \in Configs
    /\ players_df \in PlayerTables
    /\ pc = "main"
    /\ days = {}
    /\ fixed = {}
    /\ prob = {}
    /\ objective = << >>
    /\ status = "Not Solved"
    /\ sol = Unset({})
    /\ output = << >>

-----------------------------------------------------------------------------
(* setup_problem, up to the optional points override.                      *)
SetupProblem ==
    /\ pc = "main"
    /\ days' = config.start_gameday .. config.end_gameday
    /\ pc' = "setup"
    /\ UNCHANGED <<config, players_df, fixed, prob, objective, status, sol, output>>

RECURSIVE AdjustedTable(_, _, _)
(* players_df after the first n entries of the override mapping.           *)
AdjustedTable(tbl, adj, n) ==
    IF n = 0 THEN tbl
    ELSE LET prev == AdjustedTable(tbl, adj, n - 1)
         IN  IF \E i \in Index : prev.name[i] = adj[n][1]
             THEN [prev EXCEPT !.points_per_game =
                     [i \in Index |-> IF prev.name[i] = adj[n][1] THEN adj[n][2] ELSE @[i]]]
             ELSE prev

RECURSIVE AdjustWarnings(_, _, _)
(* The warnings printed for the first n entries of the override mapping.   *)
AdjustWarnings(tbl, adj, n) ==
    IF n = 0 THEN << >>
    ELSE LET before == AdjustWarnings(tbl, adj, n - 1)
         IN  IF \E i \in Index : tbl.name[i] = adj[n][1]
             THEN before
             ELSE Append(before, <<"Warning", 0, adj[n][1]>>)

AdjustPlayerPoints ==
    /\ pc = "setup"
    /\ config.has_adjustments
    /\ LET adj == config.player_points_adjustments
       IN  /\ players_df' = AdjustedTable(players_df, adj, Len(adj))
           /\ output' = output \o AdjustWarnings(players_df, adj, Len(adj))
    /\ pc' = "adjusted"
    /\ UNCHANGED <<config, days, fixed, prob, objective, status, sol>>

SkipAdjust ==
    /\ pc = "setup"
    /\ ~config.has_adjustments
    /\ pc' = "adjusted"
    /\ UNCHANGED <<config, players_df, days, fixed, prob, objective, status, sol, output>>

InitializeVariables ==
    /\ pc = "adjusted"
    /\ sol' = Unset(days)
    /\ pc' = "variables"
    /\ UNCHANGED <<config, players_df, days, fixed, prob, objective, status, output>>

-----------------------------------------------------------------------------
(* add_constraints: every `self.prob += ...` statement executed adds one   *)
(* record to prob.                                                         *)

(* A faulty variant of RowsNamed: a name that no row carries is looked up   *)
(* as the first row instead of failing.                                    *)
RowsNamedOrFirst(name) ==
    IF \E i \in Index : players_df.name[i] = name
    THEN {i \in Index : players_df.name[i] = name}
    ELSE {0}

RowsNamed(name) == {i \in Index : players_df.name[i] = name}

FirstRowNamed(name) == CHOOSE i \in RowsNamed(name) : \A j \in RowsNamed(name) : i <= j

RECURSIVE KnownPrefix(_, _)
(* How many names of the must-include list are handled before the lookup   *)
(* `.index[0]` fails on a name that no row carries (all of them, if none   *)
(* fails).                                                                 *)
KnownPrefix(names, n) ==
    IF n > Len(names) THEN Len(names)
    ELSE IF RowsNamed(names[n]) = {} THEN n - 1
    ELSE KnownPrefix(names, n + 1)

AddInitialPlayerConstraints ==
    /\ pc = "variables"
    /\ prob' = prob \cup {[kind |-> "initial_count"]}
    /\ LET names == config.initial_squad
           ok    == KnownPrefix(names, 1)
       IN  /\ fixed' = fixed \cup {FirstRowNamed(names[n]) : n \in 1 .. ok}
           /\ pc' = IF ok < Len(names) THEN "IndexError" ELSE "initial_added"
    /\ UNCHANGED <<config, players_df, days, objective, status, sol, output>>

AddBudgetConstraints ==
    /\ pc = "initial_added"
    /\ prob' = prob \cup {[kind |-> "initial_budget", rhs |-> config.budget]}
                    \cup {[kind |-> "budget_day", d |-> d, rhs |-> config.budget] : d \in days}
    /\ pc' = "budget_added"
    /\ UNCHANGED <<config, players_df, days, fixed, objective, status, sol, output>>

AddTransferConstraints ==
    /\ pc = "budget_added"
    /\ prob' = prob
         \cup {[kind |-> "transfer_in_limit", rhs |-> config.transfers],
               [kind |-> "transfer_out_limit", rhs |-> config.transfers]}
         \cup {[kind |-> "transfer_in_consistency", i |-> i, d |-> d,
                first |-> (d = config.start_gameday)] : i \in Index, d \in days}
         \cup {[kind |-> "transfer_out_consistency", i |-> i, d |-> d,
                first |-> (d = config.start_gameday)] : i \in Index, d \in days}
    /\ pc' = "transfer_added"
    /\ UNCHANGED <<config, players_df, days, fixed, objective, status, sol, output>>

AddDailyConstraints ==
    /\ pc = "transfer_added"
    /\ prob' = prob
         \cup {[kind |-> "lineup_type_min", type |-> t, d |-> d] : t \in {1, 2}, d \in days}
         \cup {[kind |-> "lineup_total", d |-> d] : d \in days}
         \cup {[kind |-> "captain_count", d |-> d] : d \in days}
         \cup {[kind |-> "squad_type_count", type |-> t, d |-> d] : t \in {1, 2}, d \in days}
         \cup {[kind |-> "lineup_in_squad", i |-> i, d |-> d] : i \in Index, d \in days}
         \cup {[kind |-> "captain_in_lineup", i |-> i, d |-> d] : i \in Index, d \in days}
    /\ pc' = "daily_added"
    /\ UNCHANGED <<config, players_df, days, fixed, objective, status, sol, output>>

UniqueTeams == {players_df.team[i] : i \in Index}

AddTeamConstraints ==
    /\ pc = "daily_added"
    /\ prob' = prob \cup {[kind |-> "team_cap", team |-> t, d |-> d] : t \in UniqueTeams, d \in days}
    /\ pc' = "constraints_added"
    /\ UNCHANGED <<config, players_df, days, fixed, objective, status, sol, output>>

-----------------------------------------------------------------------------
(* set_objective_function.                                                 *)
(* A faulty variant of player_points_for_day: the schedule is not read.     *)
points_regardless_of_schedule(player_idx, day) == players_df.points_per_game[player_idx]

player_points_for_day(player_idx, day) ==
    LET team == players_df.team[player_idx]
        games_on_day == {g \in DOMAIN games_df : games_df[g].event = day}
    IN  IF \/ \E g \in games_on_day : games_df[g].team_h = team
           \/ \E g \in games_on_day : games_df[g].team_a = team
        THEN players_df.points_per_game[player_idx]
        ELSE 0

SetObjectiveFunction ==
    /\ pc = "constraints_added"
    /\ objective' = [k \in Index \X days |-> player_points_for_day(k[1], k[2])]
    /\ pc' = "built"
    /\ UNCHANGED <<config, players_df, days, fixed, prob, status, sol, output>>

-----------------------------------------------------------------------------
(* The meaning of the recorded program: what each `self.prob += ...`       *)
(* statement requires of the variables it reads.  x, s, l and k are the    *)
(* values of initial_squad and of one day's squad_day, chosen_day and      *)
(* doubled_score, each a 0/1 vector over the rows; t is a whole dictionary *)
(* of transfer indicators.                                                 *)
RECURSIVE SumUpTo(_, _)
SumUpTo(term, n) == IF n < 0 THEN 0 ELSE term[n] + SumUpTo(term, n - 1)

(* pulp.lpSum of one term per row of the player table.                     *)
lpSum(term) == SumUpTo(term, Len(CommonRows))

RECURSIVE lpSumDays(_, _)
(* pulp.lpSum of a whole dictionary of (player, day) variables.            *)
lpSumDays(x, ds) ==
    IF ds = {} THEN 0
    ELSE LET d == CHOOSE e \in ds : TRUE
         IN  lpSum([i \in Index |-> x[i, d]]) + lpSumDays(x, ds \ {d})

(* A faulty variant of InitialCount: the count is only a lower bound.      *)
InitialCountAtLeast(x) == lpSum(x) >= INITIAL_PLAYERS_COUNT

InitialCount(x) == lpSum(x) = INITIAL_PLAYERS_COUNT

InitialSquadBudget(cost, budget, x) == lpSum([i \in Index |-> x[i] * cost[i]]) <= budget

(* A faulty variant of BudgetDay: the day's squad is not held to the budget.*)
BudgetDayUnbounded(cost, budget, s) == lpSum([i \in Index |-> s[i] * cost[i]]) >= 0

BudgetDay(cost, budget, s) == lpSum([i \in Index |-> s[i] * cost[i]]) <= budget

TransferInLimit(transfers, t, ds) == lpSumDays(t, ds) <= transfers

TransferOutLimit(transfers, t, ds) == lpSumDays(t, ds) <= transfers

(* A faulty variant of TransferInConsistency: the indicator is not tied to *)
(* the squads.                                                             *)
TransferInUntied(i, t, s, prev) == t[i] >= 0

(* prev is the initial squad on the first day of the window and the squad  *)
(* of day d - 1 on the others.                                             *)
TransferInConsistency(i, t, s, prev) == t[i] >= s[i] - prev[i]

TransferOutConsistency(i, t, s, prev) == t[i] >= prev[i] - s[i]

LineupTypeMin(types, type, l) ==
    lpSum([i \in Index |-> IF types[i] = type THEN l[i] ELSE 0]) >= MIN_PLAYER_TYPE_COUNT

LineupTotal(l) == lpSum(l) = TOTAL_PLAYERS_PER_DAY

CaptainCount(k) == lpSum(k) = 1

(* A faulty variant of SquadTypeCount: the quota is only a lower bound.     *)
SquadTypeAtLeast(types, type, s) ==
    lpSum([i \in Index |-> IF types[i] = type THEN s[i] ELSE 0]) >= PLAYER_TYPE_COUNT

SquadTypeCount(types, type, s) ==
    lpSum([i \in Index |-> IF types[i] = type THEN s[i] ELSE 0]) = PLAYER_TYPE_COUNT

(* A faulty variant of LineupInSquad: the lineup is not tied to the squad.  *)
LineupAnywhere(i, l, s) == l[i] <= 1

LineupInSquad(i, l, s) == l[i] <= s[i]

CaptainInLineup(i, k, l) == k[i] <= l[i]

(* A faulty variant of TeamCap: the cap is off by one.                      *)
TeamCapOffByOne(teams, team, s) ==
    lpSum([i \in Index |-> IF teams[i] = team THEN s[i] ELSE 0])
        <= MAX_PLAYERS_FROM_SAME_TEAM + 1

TeamCap(teams, team, s) ==
    lpSum([i \in Index |-> IF teams[i] = team THEN s[i] ELSE 0]) <= MAX_PLAYERS_FROM_SAME_TEAM

(* One day's column of a (player, day) dictionary.                         *)
Column(x, d) == [i \in Index |-> x[i, d]]

(* What the squad of day c.d is compared with in a consistency constraint. *)
Previous(c, a) == IF c.first THEN a.initial_squad ELSE Column(a.squad_day, c.d - 1)

(* Whether the assignment a satisfies the recorded constraint c.           *)
Holds(c, a) ==
    CASE c.kind = "initial_count" -> InitialCount(a.initial_squad)
      [] c.kind = "initial_budget" ->
           InitialSquadBudget(players_df.now_cost, c.rhs, a.initial_squad)
      [] c.kind = "budget_day" ->
           BudgetDay(players_df.now_cost, c.rhs, Column(a.squad_day, c.d))
      [] c.kind = "transfer_in_limit" -> TransferInLimit(c.rhs, a.t_in, days)
      [] c.kind = "transfer_out_limit" -> TransferOutLimit(c.rhs, a.t_out, days)
      [] c.kind = "transfer_in_consistency" ->
           TransferInConsistency(c.i, Column(a.t_in, c.d), Column(a.squad_day, c.d),
                                 Previous(c, a))
      [] c.kind = "transfer_out_consistency" ->
           TransferOutConsistency(c.i, Column(a.t_out, c.d), Column(a.squad_day, c.d),
                                  Previous(c, a))
      [] c.kind = "lineup_type_min" ->
           LineupTypeMin(players_df.element_type, c.type, Column(a.chosen_day, c.d))
      [] c.kind = "lineup_total" -> LineupTotal(Column(a.chosen_day, c.d))
      [] c.kind = "captain_count" -> CaptainCount(Column(a.doubled_score, c.d))
      [] c.kind = "squad_type_count" ->
           SquadTypeCount(players_df.element_type, c.type, Column(a.squad_day, c.d))
      [] c.kind = "lineup_in_squad" ->
           LineupInSquad(c.i, Column(a.chosen_day, c.d), Column(a.squad_day, c.d))
      [] c.kind = "captain_in_lineup" ->
           CaptainInLineup(c.i, Column(a.doubled_score, c.d), Column(a.chosen_day, c.d))
      [] c.kind = "team_cap" ->
           TeamCap(players_df.team, c.team, Column(a.squad_day, c.d))

(* The bounds set on the pinned initial_squad variables.                   *)
BoundsHold(x) == \A i \in fixed : x[i] = 1

Feasible(a) == BoundsHold(a.initial_squad) /\ \A c \in prob : Holds(c, a)

(* The value of the objective under the assignment a.                      *)
ObjectiveValue(a) ==
    lpSumDays([k \in Index \X days |-> objective[k] * (a.chosen_day[k] + a.doubled_score[k])],
              days)

-----------------------------------------------------------------------------
(* self.prob.solve(): the external solver.  It returns an assignment that  *)
(* satisfies the bounds and every recorded constraint and whose objective  *)
(* value no other such assignment exceeds, or reports that there is none.  *)
(* Every constraint reads one vector, two vectors row by row, or the       *)
(* transfer indicators, so the assignments are enumerated block by block,  *)
(* each block filtered by the recorded constraints that read it.           *)

(* f as an explicit table, and S as an explicit list of its elements (the  *)
(* same values, evaluated once).                                           *)
Table(f) == f @@ << >>

Listed(S) == DOMAIN Table([e \in S |-> TRUE])

CostColumns == {tbl.now_cost : tbl \in PlayerTables}
TypeColumns == {tbl.element_type : tbl \in PlayerTables}
TeamColumns == {tbl.team : tbl \in PlayerTables}
AllTeams == UNION {{tbl.team[i] : i \in Index} : tbl \in PlayerTables}

(* The vectors that satisfy a constraint on one vector, tabulated.         *)
InitialCountSat == {x \in Vectors : InitialCount(x)}
InitialBudgetSat ==
    Table([k \in CostColumns \X Budgets |-> {x \in Vectors : InitialSquadBudget(k[1], k[2], x)}])
BudgetDaySat ==
    Table([k \in CostColumns \X Budgets |-> {s \in Vectors : BudgetDay(k[1], k[2], s)}])
SquadTypeCountSat ==
    Table([k \in TypeColumns \X {1, 2} |-> {s \in Vectors : SquadTypeCount(k[1], k[2], s)}])
TeamCapSat ==
    Table([k \in TeamColumns \X AllTeams |-> {s \in Vectors : TeamCap(k[1], k[2], s)}])
LineupTypeMinSat ==
    Table([k \in TypeColumns \X {1, 2} |-> {l \in Vectors : LineupTypeMin(k[1], k[2], l)}])
LineupTotalSat == {l \in Vectors : LineupTotal(l)}
CaptainCountSat == {k \in Vectors : CaptainCount(k)}

Sat(c) ==
    CASE c.kind = "initial_count"    -> InitialCountSat
      [] c.kind = "initial_budget"   -> InitialBudgetSat[<<players_df.now_cost, c.rhs>>]
      [] c.kind = "budget_day"       -> BudgetDaySat[<<players_df.now_cost, c.rhs>>]
      [] c.kind = "squad_type_count" -> SquadTypeCountSat[<<players_df.element_type, c.type>>]
      [] c.kind = "team_cap"         -> TeamCapSat[<<players_df.team, c.team>>]
      [] c.kind = "lineup_type_min"  -> LineupTypeMinSat[<<players_df.element_type, c.type>>]
      [] c.kind = "lineup_total"     -> LineupTotalSat
      [] c.kind = "captain_count"    -> CaptainCountSat

(* The vectors that every tabulated set of sats holds (the search starts   *)
(* from the smallest of them).                                             *)
Common(sats) ==
    LET c == CHOOSE e \in DOMAIN sats :
                 \A f \in DOMAIN sats : Cardinality(sats[e]) <= Cardinality(sats[f])
    IN  Listed({v \in sats[c] : \A e \in DOMAIN sats : v \in sats[e]})

(* The vectors that satisfy every constraint of cs.                        *)
AllSat(cs) == IF cs = {} THEN Vectors ELSE Common(Table([c \in cs |-> Sat(c)]))

Recorded(kinds) == {c \in prob : c.kind \in kinds}

RecordedOn(kinds, d) == {c \in prob : c.kind \in kinds /\ c.d = d}

(* The initial squads the bounds and the initial-squad constraints allow.  *)
InitialSquads ==
    {x \in AllSat(Recorded({"initial_count", "initial_budget"})) : BoundsHold(x)}

(* The squads, lineups and captains of day d that the constraints on       *)
(* squad_day[., d], on chosen_day[., d] and on doubled_score[., d] allow.  *)
DayVectors(kinds, d) == AllSat(RecordedOn(kinds, d))

DaySquads(d) == DayVectors({"budget_day", "squad_type_count", "team_cap"}, d)

DayLineups(d) == DayVectors({"lineup_type_min", "lineup_total"}, d)

DayCaptains(d) == DayVectors({"captain_count"}, d)

(* The (lineup, captain) pairs that the constraints ks between             *)
(* doubled_score[., d] and chosen_day[., d] allow.                         *)
Pairs(lineups, captains, ks) ==
    Listed({lk \in lineups \X captains : \A c \in ks : CaptainInLineup(c.i, lk[2], lk[1])})

DayPairs(d) ==
    Pairs(DayLineups(d), DayCaptains(d), Listed(RecordedOn({"captain_in_lineup"}, d)))

(* The lineups that go with the squad s under the constraints ls between   *)
(* chosen_day[., d] and squad_day[., d].                                   *)
DayFit(s, ls, lineups) == Listed({l \in lineups : \A c \in ls : LineupInSquad(c.i, l, s)})

(* What a lineup or captain vector v contributes to the objective on day d.*)
Weight(v, d) == lpSum([i \in Index |-> objective[i, d] * v[i]])

Weights(vs, d) == Table([v \in vs |-> Weight(v, d)])

(* The largest number of the non-empty set S.                              *)
Maximum(S) == CHOOSE m \in S : \A n \in S : n <= m

(* The pairs of mine that contribute top to the objective.                 *)
Picked(mine, lw, kw, top) ==
    [usable |-> TRUE, best |-> top, picks |-> {lk \in mine : lw[lk[1]] + kw[lk[2]] = top}]

(* For the squad s: whether any (lineup, captain) pair of mine goes with   *)
(* it, the largest contribution to the objective, and the pairs giving it. *)
Outcome(mine, lw, kw) ==
    IF mine = {} THEN [usable |-> FALSE, best |-> 0, picks |-> {}]
    ELSE Picked(mine, lw, kw, Maximum({lw[lk[1]] + kw[lk[2]] : lk \in mine}))

Mine(pairs, fit) == Listed({lk \in pairs : lk[1] \in fit})

Outcomes(squads, pairs, ls, lw, kw) ==
    Table([s \in squads |-> Outcome(Mine(pairs, DayFit(s, ls, DOMAIN lw)), lw, kw)])

Weighed(squads, pairs, ls, d) ==
    Outcomes(squads, pairs, ls,
             Weights({lk[1] : lk \in pairs}, d), Weights({lk[2] : lk \in pairs}, d))

DayOutcomes(d) ==
    Weighed(DaySquads(d), DayPairs(d), Listed(RecordedOn({"lineup_in_squad"}, d)), d)

RECURSIVE PerDay(_, _, _)
(* The ways to pick one element of options[d] for every day d of lo..hi.   *)
PerDay(options, lo, hi) ==
    IF hi < lo THEN {<< >>}
    ELSE {[d \in lo .. hi |-> IF d = hi THEN o ELSE p[d]] :
             p \in PerDay(options, lo, hi - 1), o \in options[hi]}

RECURSIVE Total(_, _, _)
Total(f, lo, hi) == IF hi < lo THEN 0 ELSE f[hi] + Total(f, lo, hi - 1)

Zero == [i \in Index |-> 0]
One == [i \in Index |-> 1]

(* The transfer indicators that must be 1 under the initial squad x and    *)
(* the squads sq: those whose consistency constraint fails at 0.  cs_in    *)
(* and cs_out are the recorded consistency constraints.                    *)
Before(c, x, sq) == IF c.first THEN x ELSE sq[c.d - 1]

ForcedIn(cs_in, x, sq) ==
    {<<c.i, c.d>> : c \in {c \in cs_in :
        ~TransferInConsistency(c.i, Zero, sq[c.d], Before(c, x, sq))}}

ForcedOut(cs_out, x, sq) ==
    {<<c.i, c.d>> : c \in {c \in cs_out :
        ~TransferOutConsistency(c.i, Zero, sq[c.d], Before(c, x, sq))}}

(* Whether the consistency constraints hold once those indicators are 1.   *)
Consistent(cs_in, cs_out, x, sq) ==
    /\ \A c \in cs_in : \/ TransferInConsistency(c.i, Zero, sq[c.d], Before(c, x, sq))
                        \/ TransferInConsistency(c.i, One, sq[c.d], Before(c, x, sq))
    /\ \A c \in cs_out : \/ TransferOutConsistency(c.i, Zero, sq[c.d], Before(c, x, sq))
                         \/ TransferOutConsistency(c.i, One, sq[c.d], Before(c, x, sq))

Indicator(pairs) == [k \in Index \X days |-> IF k \in pairs THEN 1 ELSE 0]

(* Whether the recorded transfer limits hold of the indicators set on the  *)
(* pairs ins and outs.                                                     *)
WithinLimits(limits, ins, outs) ==
    \A c \in limits :
        CASE c.kind = "transfer_in_limit"  -> TransferInLimit(c.rhs, Indicator(ins), days)
          [] c.kind = "transfer_out_limit" -> TransferOutLimit(c.rhs, Indicator(outs), days)

(* squad_day, chosen_day or doubled_score as one dictionary, from one      *)
(* vector per day.                                                         *)
Joined(perDay) == Table([k \in Index \X days |-> perDay[k[2]][k[1]]])

(* The squads of each day that some (lineup, captain) pair goes with.      *)
Usable(outcome) == Table([d \in days |-> {s \in DOMAIN outcome[d] : outcome[d][s].usable}])

(* The constraints of cs that are recorded for day d.                      *)
OfDay(cs, d) == Listed({c \in cs : c.d = d})

(* The plan p with the squad s added as the squad of day d: the initial    *)
(* squad x, the squads sq so far, and the indicators ins and outs that     *)
(* they force to 1.                                                        *)
Longer(p, sq, cs_in, cs_out) ==
    [x |-> p.x, sq |-> sq,
     ins  |-> p.ins \cup ForcedIn(cs_in, p.x, sq),
     outs |-> p.outs \cup ForcedOut(cs_out, p.x, sq)]

Step(p, s, d, cs_in, cs_out) ==
    Longer(p, Table([e \in DOMAIN p.sq \cup {d} |-> IF e = d THEN s ELSE p.sq[e]]),
           cs_in, cs_out)

(* The plans that remain when each plan of plans is continued with each    *)
(* squad of squads on day d.  A plan is dropped as soon as the indicators  *)
(* forced so far exceed a limit, since later days only add to them.        *)
Continued(plans, squads, d, cs_in, cs_out, limits) ==
    Listed({q \in {Step(p, s, d, cs_in, cs_out) : p \in plans, s \in squads} :
              /\ Consistent(cs_in, cs_out, q.x, q.sq)
              /\ WithinLimits(limits, q.ins, q.outs)})

RECURSIVE Plans(_, _, _, _, _, _, _)
(* An initial squad and one squad per day of lo..hi that satisfy the       *)
(* transfer constraints under some value of the indicators.                *)
Plans(initials, usable, cs_in, cs_out, limits, lo, hi) ==
    IF hi < lo THEN {[x |-> x, sq |-> << >>, ins |-> {}, outs |-> {}] : x \in initials}
    ELSE Continued(Plans(initials, usable, cs_in, cs_out, limits, lo, hi - 1),
                   usable[hi], hi, OfDay(cs_in, hi), OfDay(cs_out, hi), limits)

(* The largest objective value each plan reaches.                          *)
Values(plans, outcome) ==
    Table([p \in plans |->
             Total([d \in days |-> outcome[d][p.sq[d]].best],
                   config.start_gameday, config.end_gameday)])

(* The plans of the largest value.                                         *)
Best(plans, value, optimum) == {q \in plans : value[q] = optimum}

Optimum(plans, value) ==
    IF plans = {} THEN {} ELSE Best(plans, value, Maximum({value[p] : p \in plans}))

(* The transfer indicators the solver may set to 1 without need.  The      *)
(* constraints read an indicator only in a lower bound and in a sum, so    *)
(* the rows are taken lowest first: e gives, for each direction and day,   *)
(* how many indicators are raised beyond the forced ones.                  *)
Cells == {"in", "out"} \X days

RECURSIVE CellSum(_, _)
CellSum(e, cells) ==
    IF cells = {} THEN 0
    ELSE LET c == CHOOSE x \in cells : TRUE IN e[c] + CellSum(e, cells \ {c})

Extras == Listed({e \in [Cells -> 0 .. MaxExtra] : CellSum(e, Cells) <= MaxExtra})

Lowest(S, n) == {i \in S : Cardinality({j \in S : j < i}) < n}

Raised(forced, tag, e) ==
    forced \cup UNION {{<<i, d>> : i \in Lowest({j \in Index : <<j, d>> \notin forced},
                                                e[<<tag, d>>])} : d \in days}

Full(x, sq, lk, ins, outs) ==
    [initial_squad |-> x,
     squad_day     |-> Joined(sq),
     chosen_day    |-> Joined([d \in days |-> lk[d][1]]),
     t_in          |-> Indicator(ins),
     t_out         |-> Indicator(outs),
     doubled_score |-> Joined([d \in days |-> lk[d][2]])]

(* The optimal assignments built on the plan p.                            *)
Returned(p, outcome, limits, extras) ==
    {Full(p.x, p.sq, lk, Raised(p.ins, "in", e), Raised(p.outs, "out", e)) :
       lk \in PerDay([d \in days |-> outcome[d][p.sq[d]].picks],
                     config.start_gameday, config.end_gameday),
       e \in {f \in extras : WithinLimits(limits, Raised(p.ins, "in", f),
                                          Raised(p.outs, "out", f))}}

Optimal(outcome, plans, limits, extras) ==
    UNION {Returned(p, outcome, limits, extras) :
             p \in Optimum(plans, Values(plans, outcome))}

Planned(initials, outcome, cs_in, cs_out, limits, extras) ==
    Optimal(outcome,
            Plans(initials, Usable(outcome), cs_in, cs_out, limits,
                  config.start_gameday, config.end_gameday),
            limits, extras)

(* The optimal assignments of the recorded program (none if infeasible).   *)
OptimalAssignments ==
    Planned(InitialSquads,
            Table([d \in days |-> DayOutcomes(d)]),
            Listed(Recorded({"transfer_in_consistency"})),
            Listed(Recorded({"transfer_out_consistency"})),
            Listed(Recorded({"transfer_in_limit", "transfer_out_limit"})),
            Extras)

(* What the variables can hold after a solve that found no solution: they  *)
(* are left unset, or hold whatever values the engine last wrote.          *)
Leftovers ==
    {Unset(days)} \cup {[Unset(days) EXCEPT !.initial_squad = v] : v \in {Zero, One}}

Solve ==
    /\ pc = "built"
    /\ \E optimal \in {OptimalAssignments} :
          \/ /\ optimal # {}
             /\ status' = "Optimal"
             /\ sol' \in optimal
          \/ /\ optimal = {}
             /\ status' = "Infeasible"
             /\ sol' \in Leftovers
    /\ pc' = "solved"
    /\ UNCHANGED <<config, players_df, days, fixed, prob, objective, output>>

-----------------------------------------------------------------------------
(* print_solution and print_initial_squad.  A printed line is kept as      *)
(* <<text, number, player name>>.                                          *)

RECURSIVE PlayerLines(_, _, _, _)
(* One line per row i <= n with the variable x[i] equal to 1, in row order.*)
PlayerLines(tag, d, x, n) ==
    IF n < 0 THEN << >>
    ELSE LET before == PlayerLines(tag, d, x, n - 1)
         IN  IF x[n] = 1 THEN Append(before, <<tag, d, players_df.name[n]>>) ELSE before

(* What print_solution prints for day d.                                   *)
DayLines(d) ==
    LET transfers_in  == PlayerLines("    - in", d, Column(sol.t_in, d), Len(CommonRows))
        transfers_out == PlayerLines("    - out", d, Column(sol.t_out, d), Len(CommonRows))
    IN  IF transfers_in # << >> \/ transfers_out # << >>
        THEN <<  <<"Day", d, "">>  >>
             \o (IF transfers_in # << >>
                 THEN << <<"  Transfers In:", d, "">> >> \o transfers_in ELSE << >>)
             \o (IF transfers_out # << >>
                 THEN << <<"  Transfers Out:", d, "">> >> \o transfers_out ELSE << >>)
        ELSE << >>

RECURSIVE TransferLines(_, _)
TransferLines(lo, hi) == IF hi < lo THEN << >> ELSE TransferLines(lo, hi - 1) \o DayLines(hi)

PrintSolution ==
    /\ pc = "solved"
    /\ IF status # "Optimal"
       THEN output' = Append(output, <<"No optimal solution found.", 0, "">>)
       ELSE output' = output
                \o << <<"Total Points", ObjectiveValue(sol), "">>,
                      <<"Transfers to be made:", 0, "">> >>
                \o TransferLines(config.start_gameday, config.end_gameday)
    /\ pc' = "printed"
    /\ UNCHANGED <<config, players_df, days, fixed, prob, objective, status, sol>>

PrintInitialSquad ==
    /\ pc = "printed"
    /\ output' = Append(output, <<"Initial Squad:", 0, "">>)
                   \o PlayerLines("  - squad", 0, sol.initial_squad, Len(CommonRows))
    /\ pc' = "done"
    /\ UNCHANGED <<config, players_df, days, fixed, prob, objective, status, sol>>

Next ==
    \/ SetupProblem \/ AdjustPlayerPoints \/ SkipAdjust \/ InitializeVariables
    \/ AddInitialPlayerConstraints \/ AddBudgetConstraints \/ AddTransferConstraints
    \/ AddDailyConstraints \/ AddTeamConstraints \/ SetObjectiveFunction
    \/ Solve \/ PrintSolution \/ PrintInitialSquad

Spec == Init /\ [][Next]_vars
-----------------------------------------------------------------------------
(* What the properties below read off a state.                             *)

(* The solver returned an optimal assignment (print_solution accepts it).  *)
Accepted == status = "Optimal"

InitialSquad == {i \in Index : sol.initial_squad[i] = 1}

Squad(d) == {i \in Index : sol.squad_day[i, d] = 1}

Lineup(d) == {i \in Index : sol.chosen_day[i, d] = 1}

Captain(d) == {i \in Index : sol.doubled_score[i, d] = 1}

OfType(S, type) == {i \in S : players_df.element_type[i] = type}

OfTeam(S, team) == {i \in S : players_df.team[i] = team}

(* The squad that the squad of day d is compared with.                     *)
SquadBefore(d) == IF d = config.start_gameday THEN InitialSquad ELSE Squad(d - 1)

Entering(d) == Squad(d) \ SquadBefore(d)

Leaving(d) == SquadBefore(d) \ Squad(d)

RECURSIVE SetSum(_, _)
SetSum(f, S) ==
    IF S = {} THEN 0
    ELSE LET i == CHOOSE j \in S : TRUE IN f[i] + SetSum(f, S \ {i})

Cost(S) == SetSum(players_df.now_cost, S)

(* A player's points on day d, read from the schedule: the projected       *)
(* points if the player's team is the home or the away team of a game of   *)
(* that day, and 0 otherwise.                                              *)
DayPoints(i, d) ==
    IF \E g \in 1 .. Len(games_df) :
          /\ games_df[g].event = d
          /\ players_df.team[i] \in {games_df[g].team_h, games_df[g].team_a}
    THEN players_df.points_per_game[i]
    ELSE 0

TopDayPoints(S, d) == Maximum({DayPoints(i, d) : i \in S})

RECURSIVE LineupPoints(_, _)
(* Over the days lo..hi: the day-points of the lineup's members plus the   *)
(* largest day-points among them.                                          *)
LineupPoints(lo, hi) ==
    IF hi < lo THEN 0
    ELSE LineupPoints(lo, hi - 1)
           + SetSum([i \in Index |-> DayPoints(i, hi)], Lineup(hi))
           + TopDayPoints(Lineup(hi), hi)

(* The must-include list names a player that no row of the table carries.  *)
MissingName ==
    \E n \in 1 .. Len(config.initial_squad) :
        \A i \in Index : players_df.name[i] # config.initial_squad[n]

AllTyped == \A i \in Index : players_df.element_type[i] \in {1, 2}

-----------------------------------------------------------------------------
(* C1: in every solved model the initial squad has exactly 10 players, and *)
(* on every day of the window the lineup has exactly 5 players, at least 2 *)
(* of position type 1 and at least 2 of type 2, and the squad has exactly  *)
(* 5 players of type 1 and exactly 5 of type 2.                            *)
C1_SquadAndLineupSizes ==
    Accepted =>
        /\ Cardinality(InitialSquad) = 10
        /\ \A d \in days :
              /\ Cardinality(Lineup(d)) = 5
              /\ Cardinality(OfType(Lineup(d), 1)) >= 2
              /\ Cardinality(OfType(Lineup(d), 2)) >= 2
              /\ Cardinality(OfType(Squad(d), 1)) = 5
              /\ Cardinality(OfType(Squad(d), 2)) = 5

(* A solved model over a window of two days in a table that has more       *)
(* players of type 1 than the quota takes.                                 *)
C1_Witness ==
    /\ Accepted
    /\ Feasible(sol)
    /\ pc = "solved"
    /\ config.start_gameday < config.end_gameday
    /\ Cardinality(OfType(Index, 1)) > 5

(* C2: on every day of the window of a solved model exactly one player is  *)
(* captain, the captain is in the day's lineup, and every member of the    *)
(* lineup is in the day's squad.                                           *)
C2_CaptainInLineupInSquad ==
    Accepted =>
        \A d \in days :
            /\ Cardinality(Captain(d)) = 1
            /\ Captain(d) \subseteq Lineup(d)
            /\ Lineup(d) \subseteq Squad(d)

(* A solved model in which, on each day, the lineup leaves squad members   *)
(* out and the captain is one of several lineup members.                   *)
C2_Witness ==
    /\ Accepted
    /\ Feasible(sol)
    /\ pc = "solved"
    /\ days # {}
    /\ \A d \in days : Captain(d) # Lineup(d) /\ Lineup(d) # Squad(d)

(* C3: on every day of the window of a solved model, no team of the player *)
(* table has more than 2 of its players in the day's squad.                *)
C3_TeamCap ==
    Accepted =>
        \A d \in days : \A i \in Index :
            Cardinality(OfTeam(Squad(d), players_df.team[i])) <= 2

(* A solved model whose squad holds 2 players of a team that has 3 players *)
(* in the table.                                                           *)
C3_Witness ==
    /\ Accepted
    /\ Feasible(sol)
    /\ \E d \in days : \E i \in Index :
          /\ Cardinality(OfTeam(Index, players_df.team[i])) = 3
          /\ Cardinality(OfTeam(Squad(d), players_df.team[i])) = 2

(* C4: in every solved model the cost of the initial squad is at most the  *)
(* configured budget, and so is the cost of the squad of every day of the  *)
(* window.                                                                 *)
C4_Budget ==
    Accepted =>
        /\ Cost(InitialSquad) <= config.budget
        /\ \A d \in days : Cost(Squad(d)) <= config.budget

(* A solved model whose squads spend the whole budget while a player of    *)
(* the table stays out of them.                                            *)
C4_Witness ==
    /\ Accepted
    /\ Feasible(sol)
    /\ days # {}
    /\ Cost(InitialSquad) = config.budget
    /\ \A d \in days : Cost(Squad(d)) = config.budget /\ Squad(d) # Index

(* C5: in every solved model the number of (player, day) pairs where the   *)
(* player is in the day's squad and was not in the squad before is at most *)
(* the configured transfer limit, and so is the number of pairs where the  *)
(* player left the squad; with limit 0 every day's squad is the initial    *)
(* squad and no transfer indicator is 1.                                   *)
C5_TransferLimit ==
    Accepted =>
        /\ Cardinality({k \in Index \X days : k[1] \in Entering(k[2])}) <= config.transfers
        /\ Cardinality({k \in Index \X days : k[1] \in Leaving(k[2])}) <= config.transfers
        /\ config.transfers = 0 =>
              /\ \A d \in days : Squad(d) = InitialSquad
              /\ \A k \in Index \X days : sol.t_in[k] # 1 /\ sol.t_out[k] # 1

(* A solved model that uses its whole transfer limit: a player enters the  *)
(* squad and a player leaves it.                                           *)
C5_Witness ==
    /\ Accepted
    /\ Feasible(sol)
    /\ config.transfers >= 1
    /\ Cardinality({k \in Index \X days : k[1] \in Entering(k[2])}) = config.transfers
    /\ Cardinality({k \in Index \X days : k[1] \in Leaving(k[2])}) = config.transfers

(* C6: when the solver returns a non-optimal status, the finished run has  *)
(* printed the failure and nothing of a roster: no total, no transfer list *)
(* and no initial-squad listing.                                           *)
C6_NoRosterOutputOnFailure ==
    (pc = "done" /\ ~Accepted) =>
        \A k \in DOMAIN output :
            output[k][1] \in {"Warning", "No optimal solution found."}

(* C7: if the must-include list names a player that is in no row, the run  *)
(* does not get past the construction of the constraints: the solver is    *)
(* never invoked and no result is printed.                                 *)
C7_MissingNameIsFatal ==
    MissingName =>
        /\ pc \in {"main", "setup", "adjusted", "variables", "IndexError"}
        /\ status = "Not Solved"
        /\ sol \in {Unset({}), Unset(days)}
        /\ \A k \in DOMAIN output : output[k][1] = "Warning"

(* The run has failed in add_initial_player_constraints, after it fixed    *)
(* the names that precede the missing one.                                 *)
C7_Witness ==
    /\ MissingName
    /\ pc = "IndexError"
    /\ fixed # {}

(* C8: in every solved model the value of the objective, which is the      *)
(* total that is printed, is the sum over the days of the window of the    *)
(* day-points of the lineup's members plus the largest day-points among    *)
(* them; the captain is a lineup member of the largest day-points.         *)
C8_ObjectiveIsLineupPlusTopScorer ==
    Accepted =>
        /\ ObjectiveValue(sol) = LineupPoints(config.start_gameday, config.end_gameday)
        /\ \A d \in days : \A c \in Captain(d) :
              DayPoints(c, d) = TopDayPoints(Lineup(d), d)
        /\ \A k \in DOMAIN output :
              output[k][1] = "Total Points" =>
                  output[k][2] = LineupPoints(config.start_gameday, config.end_gameday)

(* A solved and printed model in which a squad member whose team has no    *)
(* game on a day is left out of that day's lineup and the lineup members   *)
(* differ in day-points.                                                   *)
C8_Witness ==
    /\ Accepted
    /\ pc = "printed"
    /\ \E d \in days :
          /\ \E i \in Squad(d) \ Lineup(d) :
                players_df.points_per_game[i] > 0 /\ DayPoints(i, d) = 0
          /\ \E i \in Lineup(d) : DayPoints(i, d) < TopDayPoints(Lineup(d), d)

(* C9: in every solved model a transfer indicator is 1 exactly where squad *)
(* membership changed, so that every transfer print_solution lists is a    *)
(* player who entered or left the squad on that day.                       *)
C9_NoSpuriousTransfers ==
    Accepted =>
        /\ \A k \in Index \X days :
              /\ sol.t_in[k] = 1 <=> k[1] \in Entering(k[2])
              /\ sol.t_out[k] = 1 <=> k[1] \in Leaving(k[2])
        /\ \A n \in DOMAIN output :
              /\ output[n][1] = "    - in" =>
                    \E i \in Entering(output[n][2]) : players_df.name[i] = output[n][3]
              /\ output[n][1] = "    - out" =>
                    \E i \in Leaving(output[n][2]) : players_df.name[i] = output[n][3]

(* C10: on every day of the window of a solved model the squad has 10      *)
(* members plus one for each member whose position type is neither 1 nor   *)
(* 2; when every player of the table has type 1 or 2 the squad has exactly *)
(* 10 members and as many players enter it as leave it.                    *)
C10_SquadSizeFollowsTypeQuotas ==
    Accepted =>
        \A d \in days :
            /\ Cardinality(Squad(d)) =
                  10 + Cardinality(Squad(d) \ (OfType(Index, 1) \cup OfType(Index, 2)))
            /\ AllTyped =>
                  /\ Cardinality(Squad(d)) = 10
                  /\ Cardinality(Entering(d)) = Cardinality(Leaving(d))

(* A solved model over a table of types 1 and 2 only in which a player     *)
(* enters the squad and another leaves it.                                 *)
C10_Witness ==
    /\ Accepted
    /\ Feasible(sol)
    /\ AllTyped
    /\ \E d \in days : Entering(d) # {} /\ Leaving(d) # {}

====
